---------------------------- MODULE Spec2Model ----------------------------
(***************************************************************************)
(* Gold price tracker (src/streamlit_app.py): the exchange-rate source,    *)
(* the currency converter, the metrics calculator, the alert evaluator and *)
(* the Streamlit script main() that composes them around the session's     *)
(* alert list.                                                             *)
(*                                                                         *)
(* Numbers.  Money amounts are integers in cents; closes are whole         *)
(* currency units (multiples of 100 cents).  An exchange rate is the       *)
(* integer number of hundredths (0.93 is 93, 132.0 is 13200), so that      *)
(* amount * rate \div 100 is the exact product for whole-unit amounts.     *)
(* A percentage change is an exact reduced fraction, or one of the three   *)
(* IEEE results numpy's float64 division gives for a zero divisor.         *)
(***************************************************************************)
EXTENDS Integers, Sequences, FiniteSets, TLC

VARIABLES
    price_alerts,    \* st.session_state.price_alerts: sequence of [price, type]
    pc,              \* position of the script run: idle, rates, data, calc, sidebar, list, check
    clicked,         \* the button that is true in this run: none, add, or delete idx
    currency_code,   \* value of the 'Select Currency' widget
    response,        \* local of get_exchange_rates: what the rate request produced
    exchange_rates,  \* local of main: table returned by get_exchange_rates
    df,              \* local of main: series returned by get_gold_data (closes)
    metrics,         \* local of main: result of calculate_price_changes
    warnings,        \* st.warning lines shown by this run
    error,           \* st.error line shown by this run ("none" when there is none)
    evaluated,       \* TRUE once this run has shown its alert evaluation
    user_action,     \* history: the user action that started this chain of runs
    len_at_click,    \* history: Len(price_alerts) at the moment of that user action
    fired_before,    \* history: per stored alert, was its message shown by an earlier run
    fn_args,         \* function-level specifications: the arguments of the call
    fn_ret,          \* function-level specifications: what the call returned
    fn_twin          \* function-level specifications: result of the twin call

vars == <<price_alerts, pc, clicked, currency_code, response, exchange_rates,
          df, metrics, warnings, error, evaluated, user_action, len_at_click,
          fired_before, fn_args, fn_ret, fn_twin>>

appVars == <<price_alerts, pc, clicked, currency_code, response, exchange_rates,
             df, metrics, warnings, error, evaluated, user_action,
             len_at_click, fired_before>>

fnVars == <<fn_args, fn_ret, fn_twin>>

(***************************************************************************)
(* Bounds of the model.                                                    *)
(***************************************************************************)
MaxLen == 12      \* longest series handed to calculate_price_changes alone
MaxFetch == 2     \* longest series the data source returns inside main
MaxAlerts == 2    \* longest alert list
MaxPrice == 3     \* largest whole-unit amount given to the pure functions

(***************************************************************************)
(* Values.                                                                 *)
(***************************************************************************)
None == [kind |-> "none"]

AlertTypes == {"above", "below"}

\* currency_options of main
AppCurrencies == {"USD", "EUR", "NPR"}

\* codes a caller of convert_price may pass: the three above and a foreign one
CurrencyCodes == AppCurrencies \cup {"GBP"}

\* the except branch of get_exchange_rates
FallbackRates ==
    [EUR |-> 93, NPR |-> 13200, last_updated |-> "Unable to fetch latest rates"]

\* a table the live service answers with
LiveRates == [EUR |-> 90, NPR |-> 13000, last_updated |-> "live"]

RateTables == {FallbackRates, LiveRates}

\* What requests.get(...).json() can produce: the request raises, the body is
\* no JSON, the JSON lacks a key that is read, or the JSON is complete.
Responses ==
    { [net |-> "error",  json |-> "none",    body |-> [x \in {} |-> 0]],
      [net |-> "ok",     json |-> "invalid", body |-> [x \in {} |-> 0]],
      [net |-> "ok",     json |-> "ok",      body |-> [EUR |-> 90, last_updated |-> "live"]],
      [net |-> "ok",     json |-> "ok",      body |-> LiveRates] }

\* A series of n closes falling to one whole unit: close i is n - i + 1 units,
\* except that close z is 0 (z = 0: no zero close).  Every position is told
\* apart by its value.
Ser(n, z) == [i \in 1..n |-> IF i = z THEN 0 ELSE 100 * (n - i + 1)]

SeriesSet(L) == { Ser(n, z) : n \in 0..L, z \in 0..L }

Amounts == { 100 * k : k \in 0..MaxPrice }

RECURSIVE SeqsUpTo(_, _)
SeqsUpTo(S, n) ==
    IF n = 0 THEN {<<>>}
    ELSE LET shorter == SeqsUpTo(S, n - 1)
         IN  shorter \cup { Append(s, x) : s \in { t \in shorter : Len(t) = n - 1 }, x \in S }

(***************************************************************************)
(* Arithmetic of the metrics.                                              *)
(***************************************************************************)
Abs(x) == IF x < 0 THEN -x ELSE x

RECURSIVE Gcd(_, _)
Gcd(a, b) == IF b = 0 THEN a ELSE Gcd(b, a % b)

\* ((cur - ref) / ref) * 100 on numpy float64 operands: a zero divisor gives
\* inf, -inf or nan (with a RuntimeWarning), never an exception.
PctChange(cur, ref) ==
    IF ref = 0
    THEN [cls |-> IF cur - ref > 0 THEN "inf" ELSE IF cur - ref < 0 THEN "-inf" ELSE "nan",
          num |-> 0, den |-> 0]
    ELSE LET n == (cur - ref) * 100
             s == IF ref < 0 THEN -1 ELSE 1
             g == Gcd(Abs(n), Abs(ref))
         IN  [cls |-> "finite", num |-> (s * n) \div g, den |-> (s * ref) \div g]

\* f"{x:.2f}" of an amount in cents: the digits before and after the point
Fmt2(x) == <<x \div 100, x % 100>>

(***************************************************************************)
(* get_exchange_rates                                                      *)
(***************************************************************************)
get_exchange_rates_raising(resp) ==
    IF resp.net = "error" \/ resp.json = "invalid"
           \/ ~({"EUR", "NPR", "last_updated"} \subseteq DOMAIN resp.body)
    THEN [kind |-> "raise"]
    ELSE [EUR |-> resp.body.EUR, NPR |-> resp.body.NPR,
          last_updated |-> resp.body.last_updated]

get_exchange_rates(resp) ==
    IF resp.net = "error" \/ resp.json = "invalid"
           \/ ~({"EUR", "NPR", "last_updated"} \subseteq DOMAIN resp.body)
    THEN FallbackRates
    ELSE [EUR |-> resp.body.EUR, NPR |-> resp.body.NPR,
          last_updated |-> resp.body.last_updated]

(***************************************************************************)
(* convert_price                                                           *)
(***************************************************************************)
convert_price(price_usd, target_currency, rates) ==
    IF target_currency = "USD"
    THEN [kind |-> "ok", amount |-> price_usd, symbol |-> "$"]
    ELSE IF target_currency = "EUR"
    THEN IF "EUR" \in DOMAIN rates
         THEN [kind |-> "ok", amount |-> (price_usd * rates.EUR) \div 100, symbol |-> "euro"]
         ELSE [kind |-> "KeyError"]
    ELSE IF "NPR" \in DOMAIN rates
         THEN [kind |-> "ok", amount |-> (price_usd * rates.NPR) \div 100, symbol |-> "rupee"]
         ELSE [kind |-> "KeyError"]

(***************************************************************************)
(* calculate_price_changes                                                 *)
(***************************************************************************)
\* df['Close'][k] on a date-indexed series: k is a position, negative k
\* counts from the end, a position outside the series raises IndexError.
InRange_clamped(close, k) == Len(close) > 0

InRange(close, k) ==
    IF k >= 0 THEN k < Len(close) ELSE Len(close) + k >= 0

At(close, k) ==
    LET n == Len(close)
        p == IF k >= 0 THEN k + 1 ELSE n + k + 1
    IN  close[IF p < 1 THEN 1 ELSE IF p > n THEN n ELSE p]

\* line 58: the reference position of the ten-day change
ten_day_index_short(close) == IF Len(close) >= 10 THEN -10 ELSE 0

ten_day_index(close) == IF Len(close) >= 11 THEN -11 ELSE 0

calculate_price_changes_converted(close, rates, currency) ==
    IF ~InRange(close, -1) THEN [kind |-> "IndexError"]
    ELSE LET current_price_usd == At(close, -1)
             conv == convert_price(current_price_usd, currency, rates)
         IN  IF conv.kind # "ok" THEN [kind |-> conv.kind]
             ELSE IF ~InRange(close, -2) THEN [kind |-> "IndexError"]
             ELSE IF ~InRange(close, ten_day_index(close)) THEN [kind |-> "IndexError"]
             ELSE [kind |-> "ok",
                   current_price |-> conv.amount,
                   symbol |-> conv.symbol,
                   one_day_change |-> PctChange(conv.amount, At(close, -2)),
                   ten_day_change |-> PctChange(conv.amount, At(close, ten_day_index(close))),
                   month_change |-> PctChange(conv.amount, At(close, 0))]

calculate_price_changes(close, rates, currency) ==
    IF ~InRange(close, -1) THEN [kind |-> "IndexError"]
    ELSE LET current_price_usd == At(close, -1)
             conv == convert_price(current_price_usd, currency, rates)
         IN  IF conv.kind # "ok" THEN [kind |-> conv.kind]
             ELSE IF ~InRange(close, -2) THEN [kind |-> "IndexError"]
             ELSE IF ~InRange(close, ten_day_index(close)) THEN [kind |-> "IndexError"]
             ELSE [kind |-> "ok",
                   current_price |-> conv.amount,
                   symbol |-> conv.symbol,
                   one_day_change |-> PctChange(current_price_usd, At(close, -2)),
                   ten_day_change |-> PctChange(current_price_usd, At(close, ten_day_index(close))),
                   month_change |-> PctChange(current_price_usd, At(close, 0))]

(***************************************************************************)
(* check_price_alerts                                                      *)
(***************************************************************************)
Message(text, symbol, price) == [text |-> text, symbol |-> symbol, price |-> Fmt2(price)]

RECURSIVE alerts_loop_strict(_, _, _, _, _)
alerts_loop_strict(current_price, alert_prices, symbol, i, triggered_alerts) ==
    IF i > Len(alert_prices) THEN triggered_alerts
    ELSE LET price == alert_prices[i]
         IN  alerts_loop_strict(current_price, alert_prices, symbol, i + 1,
                 IF price.price > current_price /\ price.type = "below"
                 THEN Append(triggered_alerts, Message("Price fell below ", symbol, price.price))
                 ELSE IF price.price < current_price /\ price.type = "above"
                 THEN Append(triggered_alerts, Message("Price rose above ", symbol, price.price))
                 ELSE triggered_alerts)

RECURSIVE alerts_loop(_, _, _, _, _)
alerts_loop(current_price, alert_prices, symbol, i, triggered_alerts) ==
    IF i > Len(alert_prices) THEN triggered_alerts
    ELSE LET price == alert_prices[i]
         IN  alerts_loop(current_price, alert_prices, symbol, i + 1,
                 IF price.price >= current_price /\ price.type = "below"
                 THEN Append(triggered_alerts, Message("Price fell below ", symbol, price.price))
                 ELSE IF price.price <= current_price /\ price.type = "above"
                 THEN Append(triggered_alerts, Message("Price rose above ", symbol, price.price))
                 ELSE triggered_alerts)

check_price_alerts_strict(current_price, alert_prices, currency, symbol) ==
    alerts_loop_strict(current_price, alert_prices, symbol, 1, <<>>)

check_price_alerts(current_price, alert_prices, currency, symbol) ==
    alerts_loop(current_price, alert_prices, symbol, 1, <<>>)

(***************************************************************************)
(* main: one run of the script, step by step.  Streamlit runs the script   *)
(* from the top after every user interaction; at most one button is true   *)
(* in a run.  The locals of a run are dropped when the next run starts.    *)
(***************************************************************************)
NoClick == [kind |-> "none", idx |-> 0]

\* what the user can have typed into 'Alert Price' (cents)
TypedPrices == {-100}

\* the widget's state: untouched, or holding what the user typed
WidgetEntries ==
    {[touched |-> FALSE, value |-> 0]} \cup {[touched |-> TRUE, value |-> v] : v \in TypedPrices}

\* st.number_input(min_value=0.0, value=current_price): the value the user
\* entered, kept at or above min_value by the widget, else the default.
number_input_unchecked(min_value, value, typed) ==
    IF ~typed.touched THEN value ELSE typed.value

number_input(min_value, value, typed) ==
    IF ~typed.touched THEN value
    ELSE IF typed.value < min_value THEN min_value ELSE typed.value

\* list.pop(idx), idx counted from 0
pop_last(alerts, idx) == SubSeq(alerts, 1, Len(alerts) - 1)

pop(alerts, idx) ==
    SubSeq(alerts, 1, idx) \o SubSeq(alerts, idx + 2, Len(alerts))

\* is message m among the st.warning lines ws
Shown(m, ws) == \E k \in 1..Len(ws) : ws[k] = m

\* the line check_price_alerts writes for an alert
AlertMessage(a, symbol) ==
    Message(IF a.type = "below" THEN "Price fell below " ELSE "Price rose above ",
            symbol, a.price)

\* lines 83-84 and the first run of the session
AppInit ==
    /\ price_alerts = <<>>
    /\ pc = "rates"
    /\ clicked = NoClick
    /\ currency_code = "USD"
    /\ response = None
    /\ exchange_rates = None
    /\ df = <<>>
    /\ metrics = None
    /\ warnings = <<>>
    /\ error = "none"
    /\ evaluated = FALSE
    /\ user_action = NoClick
    /\ len_at_click = 0
    /\ fired_before = <<>>

FnIdle ==
    /\ fn_args = None
    /\ fn_ret = None
    /\ fn_twin = None

\* A user interaction on the finished page starts the next run.
StartRun(click, cur, kind) ==
    /\ pc = "idle"
    /\ pc' = "rates"
    /\ clicked' = click
    /\ currency_code' = cur
    /\ user_action' = [kind |-> kind, idx |-> click.idx]
    /\ len_at_click' = Len(price_alerts)
    /\ response' = None
    /\ exchange_rates' = None
    /\ df' = <<>>
    /\ metrics' = None
    /\ warnings' = <<>>
    /\ error' = "none"
    /\ evaluated' = FALSE
    /\ fired_before' = [i \in 1..Len(price_alerts) |->
                           \/ fired_before[i]
                           \/ evaluated /\ Shown(AlertMessage(price_alerts[i], metrics.symbol), warnings)]
    /\ UNCHANGED <<price_alerts, fnVars>>

Refresh == StartRun(NoClick, currency_code, "refresh")

\* line 135
SelectCurrency ==
    \E c \in AppCurrencies \ {currency_code} : StartRun(NoClick, c, "currency")

\* line 160: the button exists when the last run rendered the sidebar
ClickAdd ==
    /\ evaluated
    /\ Len(price_alerts) < MaxAlerts
    /\ StartRun([kind |-> "add", idx |-> 0], currency_code, "add")

\* line 171: one Delete button per listed alert
ClickDelete ==
    /\ evaluated
    /\ \E i \in 0..(Len(price_alerts) - 1) :
           StartRun([kind |-> "delete", idx |-> i], currency_code, "delete")

\* line 90, outside the try block: an exception here ends the run unhandled
GetRates ==
    /\ pc = "rates"
    /\ \E resp \in Responses :
         LET r == get_exchange_rates(resp)
         IN  /\ response' = resp
             /\ IF "kind" \in DOMAIN r
                THEN /\ error' = "unhandled"
                     /\ pc' = "idle"
                     /\ UNCHANGED exchange_rates
                ELSE /\ exchange_rates' = r
                     /\ pc' = "data"
                     /\ UNCHANGED error
    /\ UNCHANGED <<price_alerts, clicked, currency_code, df, metrics, warnings,
                   evaluated, user_action, len_at_click, fired_before, fnVars>>

\* line 143: the data source answers with a series
GetData ==
    /\ pc = "data"
    /\ \E s \in SeriesSet(MaxFetch) : df' = s
    /\ pc' = "calc"
    /\ response' = None
    /\ UNCHANGED <<price_alerts, clicked, currency_code, exchange_rates,
                   metrics, warnings, error, evaluated, user_action,
                   len_at_click, fired_before, fnVars>>

\* line 143 raises: lines 225-227
GetDataFails ==
    /\ pc = "data"
    /\ error' = "DataUnavailable"
    /\ pc' = "idle"
    /\ response' = None
    /\ UNCHANGED <<price_alerts, clicked, currency_code, exchange_rates,
                   df, metrics, warnings, evaluated, user_action,
                   len_at_click, fired_before, fnVars>>

\* lines 146-148, and lines 225-227 when the call raises
Calculate ==
    /\ pc = "calc"
    /\ LET m == calculate_price_changes(df, exchange_rates, currency_code)
       IN  IF m.kind = "ok"
           THEN /\ metrics' = m
                /\ pc' = "sidebar"
                /\ UNCHANGED error
           ELSE /\ error' = m.kind
                /\ pc' = "idle"
                /\ UNCHANGED metrics
    /\ UNCHANGED <<price_alerts, clicked, currency_code, response, exchange_rates,
                   df, warnings, evaluated, user_action, len_at_click,
                   fired_before, fnVars>>

\* lines 154-164
Sidebar ==
    /\ pc = "sidebar"
    /\ IF clicked.kind = "add"
       THEN \E typed \in WidgetEntries, alert_type \in AlertTypes :
              LET alert_price == number_input(0, metrics.current_price, typed)
              IN  /\ price_alerts' =
                         Append(price_alerts, [price |-> alert_price, type |-> alert_type])
                  /\ fired_before' = Append(fired_before, FALSE)
       ELSE UNCHANGED <<price_alerts, fired_before>>
    /\ pc' = "list"
    /\ UNCHANGED <<clicked, currency_code, response, exchange_rates, df, metrics,
                   warnings, error, evaluated, user_action, len_at_click, fnVars>>

\* lines 168-173: st.experimental_rerun() raises a script-control exception,
\* a BaseException that 'except Exception' does not catch: the run stops and
\* the script starts again with no button clicked.
ListAlerts ==
    /\ pc = "list"
    /\ IF clicked.kind = "delete" /\ clicked.idx < Len(price_alerts)
       THEN /\ price_alerts' = pop(price_alerts, clicked.idx)
            /\ fired_before' = SubSeq(fired_before, 1, clicked.idx)
                                  \o SubSeq(fired_before, clicked.idx + 2, Len(fired_before))
            /\ pc' = "rates"
            /\ clicked' = NoClick
            /\ exchange_rates' = None
            /\ df' = <<>>
            /\ metrics' = None
       ELSE /\ pc' = "check"
            /\ UNCHANGED <<price_alerts, fired_before, clicked, exchange_rates, df, metrics>>
    /\ UNCHANGED <<currency_code, response, warnings, error, evaluated, user_action,
                   len_at_click, fnVars>>

\* lines 176-180; lines 183-223 render what the run computed
ShowAlerts(ws) ==
    /\ pc = "check"
    /\ warnings' = ws
    /\ evaluated' = TRUE
    /\ pc' = "idle"
    /\ UNCHANGED <<price_alerts, clicked, currency_code, response, exchange_rates,
                   df, metrics, error, user_action, len_at_click, fired_before,
                   fnVars>>

\* evaluation placed before line 160: the alert added by this run is not in it
CheckAlerts_stale ==
    ShowAlerts(check_price_alerts(metrics.current_price,
                                  SubSeq(price_alerts, 1, len_at_click),
                                  currency_code, metrics.symbol))

\* one-shot alerts: an alert whose message was shown before stays silent
CheckAlerts_once ==
    ShowAlerts(check_price_alerts(metrics.current_price,
                                  SelectSeq([i \in 1..Len(price_alerts) |->
                                                [price |-> price_alerts[i].price,
                                                 type |-> IF fired_before[i] THEN "fired"
                                                          ELSE price_alerts[i].type]],
                                            LAMBDA a : TRUE),
                                  currency_code, metrics.symbol))

CheckAlerts ==
    ShowAlerts(check_price_alerts(metrics.current_price, price_alerts,
                                  currency_code, metrics.symbol))

Init == AppInit /\ FnIdle

Next ==
    \/ Refresh
    \/ SelectCurrency
    \/ ClickAdd
    \/ ClickDelete
    \/ GetRates
    \/ GetData
    \/ GetDataFails
    \/ Calculate
    \/ Sidebar
    \/ ListAlerts
    \/ CheckAlerts

Spec == Init /\ [][Next]_vars

(***************************************************************************)
(* Function-level specifications: the arguments are drawn by the initial   *)
(* predicate and the one action applies the function to them.              *)
(***************************************************************************)
\* tables a caller may hand to convert_price: complete ones, and ones that
\* lack an entry
TablesAny ==
    RateTables \cup
    { [NPR |-> 13200, last_updated |-> "partial"],
      [EUR |-> 93, last_updated |-> "partial"],
      [last_updated |-> "partial"] }

ConvertInit ==
    /\ AppInit
    /\ fn_args \in { [kind |-> "convert_price", price_usd |-> p,
                      target_currency |-> c, exchange_rates |-> t] :
                     p \in Amounts, c \in CurrencyCodes, t \in TablesAny }
    /\ fn_ret = None
    /\ fn_twin = None

CallConvert ==
    /\ fn_args.kind = "convert_price"
    /\ fn_ret.kind = "none"
    /\ fn_ret' = convert_price(fn_args.price_usd, fn_args.target_currency,
                               fn_args.exchange_rates)
    /\ UNCHANGED <<appVars, fn_args, fn_twin>>

SpecConvert == ConvertInit /\ [][CallConvert]_vars

CalcInit ==
    /\ AppInit
    /\ fn_args \in { [kind |-> "calculate_price_changes", close |-> s,
                      exchange_rates |-> t, currency |-> c,
                      twin_rates |-> t2, twin_currency |-> c2] :
                     s \in SeriesSet(MaxLen), t \in RateTables, c \in AppCurrencies,
                     t2 \in RateTables, c2 \in AppCurrencies }
    /\ fn_ret = None
    /\ fn_twin = None

\* the same series computed twice, under two choices of table and currency
CallCalc ==
    /\ fn_args.kind = "calculate_price_changes"
    /\ fn_ret.kind = "none"
    /\ fn_ret' = calculate_price_changes(fn_args.close, fn_args.exchange_rates,
                                         fn_args.currency)
    /\ fn_twin' = calculate_price_changes(fn_args.close, fn_args.twin_rates,
                                          fn_args.twin_currency)
    /\ UNCHANGED <<appVars, fn_args>>

SpecCalc == CalcInit /\ [][CallCalc]_vars

AlertValues == { [price |-> p, type |-> t] : p \in Amounts, t \in AlertTypes }

AlertsInit ==
    /\ AppInit
    /\ fn_args \in { [kind |-> "check_price_alerts", current_price |-> cp,
                      alert_prices |-> al, currency |-> cs[1], symbol |-> cs[2]] :
                     cp \in Amounts, al \in SeqsUpTo(AlertValues, MaxAlerts),
                     cs \in {<<"USD", "$">>, <<"EUR", "euro">>, <<"NPR", "rupee">>} }
    /\ fn_ret = <<None>>
    /\ fn_twin = None

CallCheck ==
    /\ fn_args.kind = "check_price_alerts"
    /\ fn_ret = <<None>>
    /\ fn_ret' = check_price_alerts(fn_args.current_price, fn_args.alert_prices,
                                    fn_args.currency, fn_args.symbol)
    /\ UNCHANGED <<appVars, fn_args, fn_twin>>

SpecAlerts == AlertsInit /\ [][CallCheck]_vars

(***************************************************************************)
(* Properties.                                                             *)
(***************************************************************************)
\* the condition of an alert against a price
Holds(a, cp) ==
    \/ a.type = "below" /\ cp <= a.price
    \/ a.type = "above" /\ cp >= a.price

HoldingIn(alerts, cp) == { i \in 1..Len(alerts) : Holds(alerts[i], cp) }

\* C1: check_price_alerts returns one message per alert whose condition
\* holds (below: current_price <= price, above: current_price >= price, both
\* inclusive) and none for the others, in the order of the alerts: the k-th
\* message is the message of the k-th alert that holds.
C1_OneMessagePerHoldingAlert ==
    (fn_args.kind = "check_price_alerts" /\ fn_ret # <<None>>) =>
        LET al == fn_args.alert_prices
            on == HoldingIn(al, fn_args.current_price)
        IN  /\ Len(fn_ret) = Cardinality(on)
            /\ \A i \in on :
                 fn_ret[Cardinality({ j \in on : j <= i })] =
                     [text |-> IF al[i].type = "below" THEN "Price fell below "
                               ELSE "Price rose above ",
                      symbol |-> fn_args.symbol,
                      price |-> <<al[i].price \div 100, al[i].price % 100>>]

C1_Witness ==
    /\ fn_args.kind = "check_price_alerts"
    /\ fn_ret # <<None>>
    /\ Len(fn_args.alert_prices) = 2
    /\ fn_args.alert_prices[1] = [price |-> fn_args.current_price, type |-> "below"]
    /\ fn_args.alert_prices[2] = [price |-> fn_args.current_price, type |-> "above"]
    /\ Len(fn_ret) = 2
    /\ fn_ret[1].text = "Price fell below "
    /\ fn_ret[2].text = "Price rose above "

\* C2: every run that reaches the evaluation shows the message of each stored
\* alert whose condition holds against that run's current price, whether or
\* not the message was shown by earlier runs, and shows nothing else.
C2_FiresOnEveryRefresh ==
    evaluated =>
        /\ \A i \in 1..Len(price_alerts) :
             Holds(price_alerts[i], metrics.current_price) =>
                 Shown(AlertMessage(price_alerts[i], metrics.symbol), warnings)
        /\ Len(warnings) = Cardinality(HoldingIn(price_alerts, metrics.current_price))

C2_Witness ==
    /\ evaluated
    /\ \E i \in 1..Len(price_alerts) :
         /\ fired_before[i]
         /\ Holds(price_alerts[i], metrics.current_price)
         /\ Shown(AlertMessage(price_alerts[i], metrics.symbol), warnings)

\* C3: for a series of n >= 2 closes the call returns metrics (no index
\* error), its ten-day change is taken against close[n-11] when n >= 11 and
\* against close[0] otherwise, and for n < 11 it is the window-start change.
C3_TenDayReference ==
    (fn_args.kind = "calculate_price_changes" /\ fn_ret.kind # "none"
       /\ Len(fn_args.close) >= 2) =>
        LET close == fn_args.close
            n == Len(close)
            ref == IF n >= 11 THEN close[n - 10] ELSE close[1]
        IN  /\ fn_ret.kind = "ok"
            /\ fn_ret.ten_day_change = PctChange(close[n], ref)
            /\ n < 11 => fn_ret.ten_day_change = fn_ret.month_change

C3_Witness ==
    /\ fn_args.kind = "calculate_price_changes"
    /\ fn_ret.kind = "ok"
    /\ Len(fn_args.close) = 12
    /\ fn_ret.ten_day_change = PctChange(fn_args.close[12], fn_args.close[2])
    /\ fn_ret.ten_day_change # fn_ret.month_change

\* C4: for a series of one close the call raises (an index error) and returns
\* no metrics.
C4_OnePointRaises ==
    (fn_args.kind = "calculate_price_changes" /\ fn_ret.kind # "none"
       /\ Len(fn_args.close) = 1) =>
        /\ fn_ret.kind = "IndexError"
        /\ DOMAIN fn_ret = {"kind"}

C4_Witness ==
    /\ fn_args.kind = "calculate_price_changes"
    /\ Len(fn_args.close) = 1
    /\ fn_ret.kind = "IndexError"

\* C5: when a close used as a divisor is zero the call fails with a
\* division-by-zero error, and returned metrics never hold an infinite or
\* not-a-number percentage.
C5_ZeroReferenceRaises ==
    (fn_args.kind = "calculate_price_changes" /\ fn_ret.kind # "none"
       /\ Len(fn_args.close) >= 2) =>
        LET close == fn_args.close
            n == Len(close)
            ref == IF n >= 11 THEN close[n - 10] ELSE close[1]
        IN  /\ (close[n - 1] = 0 \/ ref = 0 \/ close[1] = 0) =>
                   fn_ret.kind = "ZeroDivisionError"
            /\ fn_ret.kind = "ok" =>
                   /\ fn_ret.one_day_change.cls = "finite"
                   /\ fn_ret.ten_day_change.cls = "finite"
                   /\ fn_ret.month_change.cls = "finite"

\* C6: convert_price returns the amount unchanged with '$' for USD, and fails
\* for a target that is not USD and has no rate in the table or no symbol.
C6_UnsupportedCurrencyFails ==
    (fn_args.kind = "convert_price" /\ fn_ret.kind # "none") =>
        /\ fn_args.target_currency = "USD" =>
               fn_ret = [kind |-> "ok", amount |-> fn_args.price_usd, symbol |-> "$"]
        /\ (/\ fn_args.target_currency # "USD"
            /\ \/ fn_args.target_currency \notin DOMAIN fn_args.exchange_rates
               \/ fn_args.target_currency \notin {"USD", "EUR", "NPR"}) =>
               fn_ret.kind # "ok"

\* C7: for one series, two choices of currency and rate table give the same
\* one-day, ten-day and window-start percentages (and fail together).
C7_ChangesIgnoreCurrency ==
    (fn_args.kind = "calculate_price_changes" /\ fn_ret.kind # "none") =>
        /\ fn_ret.kind = "ok" <=> fn_twin.kind = "ok"
        /\ fn_ret.kind = "ok" =>
               /\ fn_ret.one_day_change = fn_twin.one_day_change
               /\ fn_ret.ten_day_change = fn_twin.ten_day_change
               /\ fn_ret.month_change = fn_twin.month_change

C7_Witness ==
    /\ fn_args.kind = "calculate_price_changes"
    /\ fn_ret.kind = "ok"
    /\ fn_twin.kind = "ok"
    /\ fn_args.currency = "USD"
    /\ fn_args.twin_currency = "NPR"
    /\ fn_ret.current_price # fn_twin.current_price
    /\ fn_ret.symbol # fn_twin.symbol
    /\ fn_ret.one_day_change.cls = "finite"
    /\ fn_ret.one_day_change.num # 0

\* the rate request or the parsing of its answer failed
RequestFailed(resp) ==
    \/ resp.net = "error"
    \/ resp.json = "invalid"
    \/ ~({"EUR", "NPR", "last_updated"} \subseteq DOMAIN resp.body)

\* C8: a failed rate request never ends the run: get_exchange_rates returns
\* EUR 0.93, NPR 132.0, 'Unable to fetch latest rates', the run goes on to
\* fetch the data, and the metrics and the evaluation use that table.
C8_RateFailureFallsBack ==
    /\ error # "unhandled"
    /\ ("net" \in DOMAIN response /\ RequestFailed(response)) =>
           /\ pc = "data"
           /\ error = "none"
           /\ exchange_rates = [EUR |-> 93, NPR |-> 13200,
                                last_updated |-> "Unable to fetch latest rates"]
    /\ ("net" \in DOMAIN response /\ ~RequestFailed(response)) =>
           exchange_rates.last_updated # "Unable to fetch latest rates"
    /\ (evaluated /\ exchange_rates.last_updated = "Unable to fetch latest rates") =>
           /\ currency_code = "EUR" => metrics.current_price = (df[Len(df)] * 93) \div 100
           /\ currency_code = "NPR" => metrics.current_price = (df[Len(df)] * 13200) \div 100

C8_Witness ==
    /\ evaluated
    /\ exchange_rates.last_updated = "Unable to fetch latest rates"
    /\ currency_code = "NPR"
    /\ metrics.current_price = 13200
    /\ warnings # <<>>

\* C9: the evaluation shown after 'Add Alert' covers the appended alert; after
\* 'Delete' one entry is gone, nothing is evaluated or shown by the run that
\* removed it, and the evaluation shown next covers the list without it.
C9_MutationBeforeEvaluation ==
    /\ (evaluated /\ user_action.kind = "add") =>
           /\ Len(price_alerts) = len_at_click + 1
           /\ Len(warnings) = Cardinality(HoldingIn(price_alerts, metrics.current_price))
           /\ Holds(price_alerts[Len(price_alerts)], metrics.current_price) =>
                  Shown(AlertMessage(price_alerts[Len(price_alerts)], metrics.symbol),
                        warnings)
    /\ user_action.kind = "delete" =>
           /\ len_at_click - Len(price_alerts) \in {0, 1}
           /\ Len(price_alerts) = len_at_click => (~evaluated /\ warnings = <<>>)
           /\ evaluated =>
                  /\ Len(price_alerts) = len_at_click - 1
                  /\ Len(warnings) = Cardinality(HoldingIn(price_alerts, metrics.current_price))

C9_Witness ==
    /\ evaluated
    /\ user_action.kind = "add"
    /\ Len(price_alerts) = 2
    /\ Shown(AlertMessage(price_alerts[2], metrics.symbol), warnings)

\* every stored entry has a price >= 0 and a type of above or below
EntriesValid ==
    \A i \in 1..Len(price_alerts) :
        price_alerts[i].price >= 0 /\ price_alerts[i].type \in {"above", "below"}

\* a step leaves the list alone, appends one entry in the run of an 'Add
\* Alert' click, or removes the entry at the clicked index
ListStep ==
    \/ price_alerts' = price_alerts
    \/ /\ pc = "sidebar" /\ clicked.kind = "add"
       /\ Len(price_alerts') = Len(price_alerts) + 1
       /\ SubSeq(price_alerts', 1, Len(price_alerts)) = price_alerts
    \/ /\ pc = "list" /\ clicked.kind = "delete"
       /\ Len(price_alerts') = Len(price_alerts) - 1
       /\ \A j \in 1..Len(price_alerts') :
            price_alerts'[j] = price_alerts[IF j <= clicked.idx THEN j ELSE j + 1]

\* C10: the alert list changes only by appending one entry at the end or by
\* removing the entry at the clicked index; the evaluation and a run that ends
\* in an error leave it unchanged; stored entries have price >= 0 and a type
\* of above or below.
C10_ListChangesOnlyByAppendOrRemove ==
    /\ []EntriesValid
    /\ []((error # "none" /\ user_action.kind # "delete") => Len(price_alerts) = len_at_click)
    /\ [][/\ ListStep
          /\ pc = "check" => price_alerts' = price_alerts
          /\ error' # "none" => price_alerts' = price_alerts]_vars

C10_Witness ==
    /\ user_action.kind = "delete"
    /\ user_action.idx = 0
    /\ len_at_click = 2
    /\ Len(price_alerts) = 1
    /\ pc = "rates"

=============================================================================
